---- MODULE Spec2Model ----
(***************************************************************************)
(* The audit execution engine of ragsquared: one Document, its Chunk rows, *)
(* one Audit row with its AuditChunkResult / Flag / ComplianceScore rows,  *)
(* and the tasks that drive the audit: the upload background thread, the   *)
(* resume endpoint and its background thread, the command-line runner and  *)
(* the retry script.  The database variables hold COMMITTED rows only;     *)
(* every task owns a SQLAlchemy session (autoflush off, expire_on_commit   *)
(* off) whose in-memory Audit object is tasks[t].loc.                      *)
(***************************************************************************)
EXTENDS Integers, Sequences, FiniteSets, TLC

\* ---------------------------------------------------------------- bounds
MaxChunks == 2
MaxTasks == 2
MaxLimit == 2
MaxLaunches == 2
MaxRunChunks == 6
MaxFlags == 7

\* ------------------------------------------------------ program constants
DraftLimit == 5
RetryBatch == 5
NoLimit == -1

\* Chunk ids: 1..MaxChunks in the specifications of the whole engine, up to
\* MaxRunChunks where run() alone is called on a document of any size.
ChunkIds == 1..MaxRunChunks
Tasks == 1..MaxTasks
\* --max-chunks of run_audit.py (min=1), or no limit (resume_audit.py).
Limits == {NoLimit} \cup (1..MaxLimit)
ChunkSets == SUBSET (1..MaxChunks)
\* max_chunks of a direct call of run(): None or any number from 0.
CallLimits == {NoLimit} \cup (0..MaxLimit)
RunChunkSets == SUBSET ChunkIds

VARIABLES
    chunks,     \* chunk ids of the document's committed Chunk rows (chunk_index = rank)
    audit,      \* the committed audits row
    results,    \* results[c] = number of committed AuditChunkResult rows for chunk c
    flags,      \* chunk ids that have a committed Flag row (unique per audit, chunk)
    score,      \* total_flags of the ComplianceScore row, NoScore while there is none
    tasks,      \* the tasks and their sessions
    analyzed,   \* analyzed[c] = number of analyses of chunk c that returned an analysis
    launches,   \* scripts and resume requests started so far
    call,       \* one call of a function of the services: its arguments and result
    attempted   \* record_score has been called for the audit

vars == <<chunks, audit, results, flags, score, tasks, analyzed, launches, call, attempted>>

\* No function call is under way.
NoCall == [fn |-> "none"]

NoScore == 0 - 1

\* Audit.failure_reason: None, or the text one of the four writers builds.
\* "len" is the text's length in characters.
NoReason == [kind |-> "none", n |-> 0, m |-> 0, done |-> 0, len |-> 0]

\* The length of the rate-limit text with one-digit numbers.
RateLimitLength == 129

RateLimitReason(n, m, done) ==
    [kind |-> "rate_limit", n |-> n, m |-> m, done |-> done, len |-> RateLimitLength]

\* The longest failure reason the outer handler of run() stores.
MaxReason == 500

\* Lengths of str(exc): a short message, and one longer than MaxReason.
MaxMessage == 501
ShortMessage == 33
MessageLengths == {ShortMessage, MaxMessage}

\* str(exc), cut to failure_reason[:497] + "..." when longer than 500.
Truncated(n) == IF n > MaxReason THEN 497 + 3 ELSE n

ExceptionReason(n) ==
    [kind |-> "exception", n |-> 0, m |-> 0, done |-> 0, len |-> Truncated(n)]

\* "Failed to process document: " before the message of the wrapped exception.
UploadPrefix == 28

UploadReason(n) ==
    [kind |-> "upload", n |-> 0, m |-> 0, done |-> 0, len |-> UploadPrefix + n]

\* "Resume failed: " and the message of the UnboundLocalError.
ResumeLength == 91

ResumeReason == [kind |-> "resume", n |-> 0, m |-> 0, done |-> 0, len |-> ResumeLength]

\* Audit(document_id=..., is_draft=..., status="queued") with the column defaults.
NewAudit(draft) ==
    [status |-> "queued", is_draft |-> draft, chunk_total |-> 0,
     chunk_completed |-> 0, last_chunk_id |-> 0, failed_at |-> FALSE,
     failure_reason |-> NoReason]

\* A task slot nobody uses.
IdleTask ==
    [kind |-> "idle", pc |-> "idle", loaded |-> FALSE,
     loc |-> NewAudit(FALSE), base |-> NewAudit(FALSE),
     max_chunks |-> NoLimit, pending |-> <<>>, processed |-> 0]

\* The thread upload_document starts for a manual.
UploadTask == [IdleTask EXCEPT !.kind = "upload", !.pc = "up_start"]

AllIdle == \A t \in Tasks : tasks[t].kind = "idle"

\* ------------------------------------------------------------ the session
\* session.commit(): the UPDATE writes the columns whose in-memory value differs
\* from the value the session loaded or last wrote; other columns keep the
\* committed value, whoever wrote it.
Written(loc, base) ==
    [status |-> IF loc.status # base.status THEN loc.status ELSE audit.status,
     is_draft |-> audit.is_draft,
     chunk_total |-> IF loc.chunk_total # base.chunk_total
                     THEN loc.chunk_total ELSE audit.chunk_total,
     chunk_completed |-> IF loc.chunk_completed # base.chunk_completed
                         THEN loc.chunk_completed ELSE audit.chunk_completed,
     last_chunk_id |-> IF loc.last_chunk_id # base.last_chunk_id
                       THEN loc.last_chunk_id ELSE audit.last_chunk_id,
     failed_at |-> IF loc.failed_at # base.failed_at
                   THEN loc.failed_at ELSE audit.failed_at,
     failure_reason |-> IF loc.failure_reason # base.failure_reason
                        THEN loc.failure_reason ELSE audit.failure_reason]

\* _resolve_audit / session.query(Audit)...first(): the object of the session's
\* identity map when the session has loaded the row, else the committed row.
Resolve(t) == IF tasks[t].loaded THEN tasks[t].loc ELSE audit

\* --------------------------------------------------------------- queries
\* select(func.count()).select_from(Chunk).where(Chunk.document_id == ...)
ChunkCount == Cardinality(chunks)

\* Chunks of the document with no AuditChunkResult of the audit (the outer join).

PendingChunkIds == {c \in chunks : results[c] = 0}

\* A count that finds no chunk pending, whatever the rows are.
PendingChunkCount_Ignored == Cardinality({})

\* _pending_chunk_count
PendingChunkCount == Cardinality(PendingChunkIds)

\* The ids of S in descending order.
RECURSIVE Ascending_Descending(_)
Ascending_Descending(S) ==
    IF S = {} THEN <<>>
    ELSE LET hi == CHOOSE c \in S : \A d \in S : c >= d
         IN <<hi>> \o Ascending_Descending(S \ {hi})

\* order_by(Chunk.chunk_index.asc()): the ids of S in ascending order.
RECURSIVE Ascending(_)
Ascending(S) ==
    IF S = {} THEN <<>>
    ELSE LET lo == CHOOSE c \in S : \A d \in S : c <= d
         IN <<lo>> \o Ascending(S \ {lo})

Take(s, k) == IF k >= Len(s) THEN s ELSE SubSeq(s, 1, k)

\* _pending_chunks(audit, limit=...): "if limit:" applies no limit for None and for 0.
PendingChunks(limit) ==
    IF limit = NoLimit \/ limit = 0
    THEN Ascending(PendingChunkIds)
    ELSE Take(Ascending(PendingChunkIds), limit)

\* effective_limit of run()
EffectiveLimit(max_chunks, draft) ==
    IF draft /\ max_chunks = NoLimit THEN DraftLimit ELSE max_chunks

\* _ensure_chunk_counts without its count: chunk_total keeps its default.
EnsureChunkCounts_NoCount(a) == a

\* _ensure_chunk_counts: counts the chunks only while chunk_total is 0.

EnsureChunkCounts(a) ==
    IF a.chunk_total > 0 THEN a ELSE [a EXCEPT !.chunk_total = ChunkCount]

\* 1-based position of chunk c among the document's chunks (chunk_index + 1).
Position(c) == Cardinality({d \in chunks : d <= c})

Init ==
    /\ \E draft \in BOOLEAN, manual \in BOOLEAN, S \in ChunkSets :
          /\ audit = NewAudit(draft)
          /\ chunks = IF manual THEN {} ELSE S
          /\ tasks = [t \in Tasks |-> IF manual /\ t = 1 THEN UploadTask ELSE IdleTask]
    /\ results = [c \in ChunkIds |-> 0]
    /\ flags = {}
    /\ score = NoScore
    /\ analyzed = [c \in ChunkIds |-> 0]
    /\ launches = 0
    /\ attempted = FALSE
    /\ call = NoCall

\* ------------------------------------------------------- ComplianceRunner
\* Where a task continues when run() returns; l and b are its session's Audit
\* object and the values that object had when last loaded or written.
Ret(t, l, b) ==
    CASE tasks[t].kind = "upload" ->
            [tasks[t] EXCEPT !.pc = "up_finish", !.loaded = TRUE, !.loc = l, !.base = b]
      [] tasks[t].kind = "retry" /\ l.status # "failed" ->
            [tasks[t] EXCEPT !.pc = "rt_loop", !.loaded = TRUE, !.loc = l, !.base = b]
      [] OTHER -> IdleTask

\* run(), up to the first commit: resolve the audit, count the chunks, return at
\* once for a status outside {queued, running}, else set running and commit.
RunBegin(t) ==
    /\ tasks[t].pc = "run_begin"
    /\ LET b0 == IF tasks[t].loaded THEN tasks[t].base ELSE audit
           l1 == EnsureChunkCounts(Resolve(t))
           l3 == EnsureChunkCounts([l1 EXCEPT !.status = "running"])
       IN IF l1.status \notin {"queued", "running"}
          THEN /\ tasks' = [tasks EXCEPT ![t] = Ret(t, l1, b0)]
               /\ UNCHANGED audit
          ELSE /\ audit' = Written(l3, b0)
               /\ tasks' = [tasks EXCEPT ![t] =
                     [@ EXCEPT !.pc = "run_select", !.loaded = TRUE,
                               !.loc = l3, !.base = l3]]
    /\ UNCHANGED <<chunks, results, flags, score, analyzed, launches, call, attempted>>

\* run(): the effective limit and the list of pending chunks it will walk.
RunSelect(t) ==
    /\ tasks[t].pc = "run_select"
    /\ LET sel == PendingChunks(EffectiveLimit(tasks[t].max_chunks, tasks[t].loc.is_draft))
       IN tasks' = [tasks EXCEPT ![t] =
             [@ EXCEPT !.pending = sel, !.processed = 0,
                       !.pc = IF sel = <<>> THEN "run_finish" ELSE "run_chunk"]]
    /\ UNCHANGED <<chunks, audit, results, flags, score, analyzed, launches, call, attempted>>

\* The chunk the loop of run() is at.
Current(t) == tasks[t].pending[tasks[t].processed + 1]

\* The loop body when nothing raises: _process_chunk adds the AuditChunkResult,
\* upserts the Flag, advances chunk_completed and last_chunk_id; run() commits.
ProcessChunkOk(t) ==
    /\ tasks[t].pc = "run_chunk"
    /\ LET c == Current(t)
           l == [tasks[t].loc EXCEPT !.chunk_completed = @ + 1, !.last_chunk_id = c]
       IN /\ analyzed' = [analyzed EXCEPT ![c] = @ + 1]
          /\ results' = [results EXCEPT ![c] = @ + 1]
          /\ flags' = flags \cup {c}
          /\ audit' = Written(l, tasks[t].base)
          /\ tasks' = [tasks EXCEPT ![t] =
                [@ EXCEPT !.loc = l, !.base = l, !.processed = @ + 1,
                          !.pc = IF tasks[t].processed + 1 = Len(tasks[t].pending)
                                 THEN "run_finish" ELSE "run_chunk"]]
    /\ UNCHANGED <<chunks, score, launches, call, attempted>>

\* The Audit object after a failure handler of run() has marked it.
Failed(l, reason) ==
    [l EXCEPT !.status = "failed", !.failed_at = TRUE, !.failure_reason = reason]

\* The analysis client gave up on HTTP 429: the OpenRouterError handler.
ProcessChunkRateLimit(t) ==
    /\ tasks[t].pc = "run_chunk"
    /\ LET l == Failed(tasks[t].loc,
                       RateLimitReason(tasks[t].processed + 1,
                                       tasks[t].loc.chunk_total,
                                       tasks[t].loc.chunk_completed))
       IN /\ audit' = Written(l, tasks[t].base)
          /\ tasks' = [tasks EXCEPT ![t] = Ret(t, l, l)]
    /\ UNCHANGED <<chunks, results, flags, score, analyzed, launches, call, attempted>>

\* Context building or the analysis raised anything else: re-raised to the outer
\* handler of run(), which marks the audit failed and commits.
ProcessChunkError(t) ==
    /\ tasks[t].pc = "run_chunk"
    /\ \E n \in MessageLengths :
          LET l == Failed(tasks[t].loc, ExceptionReason(n))
          IN /\ audit' = Written(l, tasks[t].base)
             /\ tasks' = [tasks EXCEPT ![t] = Ret(t, l, l)]
    /\ UNCHANGED <<chunks, results, flags, score, analyzed, launches, call, attempted>>

\* The analysis returned with a severity_score that int() rejects: upsert_flag
\* raises at "severity_score = int(...)", after _process_chunk has added the
\* AuditChunkResult to the session and before it touched the Flag or the counter.
\* The outer handler of run() does not roll back: its commit inserts the result.
ProcessChunkFlagError(t) ==
    /\ tasks[t].pc = "run_chunk"
    /\ \E n \in MessageLengths :
          LET c == Current(t)
              l == Failed(tasks[t].loc, ExceptionReason(n))
          IN /\ analyzed' = [analyzed EXCEPT ![c] = @ + 1]
             /\ results' = [results EXCEPT ![c] = @ + 1]
             /\ audit' = Written(l, tasks[t].base)
             /\ tasks' = [tasks EXCEPT ![t] = Ret(t, l, l)]
    /\ UNCHANGED <<chunks, flags, score, launches, call, attempted>>

\* After the loop: completed when no chunk is pending (record_score commits the
\* status together with the score row; its failure is logged), else still running.
RunFinish(t) ==
    /\ tasks[t].pc = "run_finish"
    /\ LET l == IF PendingChunkCount = 0
                THEN [tasks[t].loc EXCEPT !.status = "completed"]
                ELSE tasks[t].loc
       IN /\ audit' = Written(l, tasks[t].base)
          /\ tasks' = [tasks EXCEPT ![t] = Ret(t, l, l)]
          /\ \/ PendingChunkCount = 0 /\ score' = Cardinality(flags)
             \/ UNCHANGED score
          /\ attempted' = (attempted \/ PendingChunkCount = 0)
    /\ UNCHANGED <<chunks, results, flags, analyzed, launches, call>>

RunStep(t) ==
    \/ RunBegin(t)
    \/ RunSelect(t)
    \/ ProcessChunkOk(t)
    \/ ProcessChunkRateLimit(t)
    \/ ProcessChunkError(t)
    \/ ProcessChunkFlagError(t)
    \/ RunFinish(t)

\* ------------------------------------------- upload background task
\* _process_document_background, first part: load the document's latest audit,
\* set it running, commit.
UploadStart(t) ==
    /\ tasks[t].pc = "up_start"
    /\ LET l == [Resolve(t) EXCEPT !.status = "running"]
       IN /\ audit' = Written(l, audit)
          /\ tasks' = [tasks EXCEPT ![t] =
                [@ EXCEPT !.pc = "up_process", !.loaded = TRUE, !.loc = l, !.base = l]]
    /\ UNCHANGED <<chunks, results, flags, score, analyzed, launches, call, attempted>>

\* process_document, steps 1-3 succeeding: the chunker yields the chunks S, the
\* document's old Chunk rows are deleted, the new ones committed and embedded;
\* step 4 then calls run() with max_chunks = 5 for a draft, None otherwise.
UploadProcess(t, S) ==
    /\ tasks[t].pc = "up_process"
    /\ S # {}
    /\ chunks' = S
    /\ audit' = Written(tasks[t].loc, tasks[t].base)
    /\ tasks' = [tasks EXCEPT ![t] =
          [@ EXCEPT !.pc = "run_begin", !.base = tasks[t].loc,
                    !.max_chunks = IF tasks[t].loc.is_draft THEN DraftLimit ELSE NoLimit]]
    /\ UNCHANGED <<results, flags, score, analyzed, launches, call, attempted>>

\* What the "except Exception" of _process_document_background commits with the
\* session's Audit object l: failure_reason = str(exc), whatever its length.
UploadMarkFailed(t, l) ==
    /\ \E n \in MessageLengths :
          audit' = Written(Failed(l, UploadReason(n)), tasks[t].base)
    /\ tasks' = [tasks EXCEPT ![t] = IdleTask]

\* process_document raises before any chunk is stored (extraction fails, or "No
\* chunks generated from document"): it re-raises as DocumentProcessingError and
\* the background function marks the audit failed.
UploadFailNoChunks(t) ==
    /\ tasks[t].pc = "up_process"
    /\ UploadMarkFailed(t, tasks[t].loc)
    /\ UNCHANGED <<chunks, results, flags, score, analyzed, launches, call, attempted>>

\* process_document raises in the embedding step, after the chunks S were committed.
UploadFailEmbedding(t, S) ==
    /\ tasks[t].pc = "up_process"
    /\ S # {}
    /\ chunks' = S
    /\ UploadMarkFailed(t, tasks[t].loc)
    /\ UNCHANGED <<results, flags, score, analyzed, launches, call, attempted>>

\* process_document after run() returned: document.status = "processed", commit.
UploadFinish(t) ==
    /\ tasks[t].pc = "up_finish"
    /\ audit' = Written(tasks[t].loc, tasks[t].base)
    /\ tasks' = [tasks EXCEPT ![t] = IdleTask]
    /\ UNCHANGED <<chunks, results, flags, score, analyzed, launches, call, attempted>>

UploadStep(t) ==
    \/ UploadStart(t)
    \/ \E S \in ChunkSets : UploadProcess(t, S)
    \/ UploadFailNoChunks(t)
    \/ \E S \in ChunkSets : UploadFailEmbedding(t, S)
    \/ UploadFinish(t)

\* ------------------------------------------------------ retry_audit.py
\* The script's head: load the latest audit; a failed one is reset to queued with
\* failed_at and failure_reason cleared, and committed.
StartRetry(t) ==
    /\ tasks[t].kind = "idle"
    /\ LET l == IF audit.status = "failed"
                THEN [audit EXCEPT !.status = "queued", !.failed_at = FALSE,
                                   !.failure_reason = NoReason]
                ELSE audit
       IN /\ audit' = Written(l, audit)
          /\ tasks' = [tasks EXCEPT ![t] =
                [IdleTask EXCEPT !.kind = "retry", !.pc = "rt_loop", !.loaded = TRUE,
                                 !.loc = l, !.base = l]]
    /\ UNCHANGED <<chunks, results, flags, score, analyzed, call, attempted>>

\* One turn of the script's loop: refresh the audit; stop when nothing remains by
\* the counters or the status is completed or failed, else run() a batch.
RetryLoop(t) ==
    /\ tasks[t].pc = "rt_loop"
    /\ tasks' = [tasks EXCEPT ![t] =
          IF \/ audit.chunk_total - audit.chunk_completed = 0
             \/ audit.status \in {"completed", "failed"}
          THEN IdleTask
          ELSE [@ EXCEPT !.pc = "run_begin", !.loc = audit, !.base = audit,
                         !.max_chunks = RetryBatch]]
    /\ UNCHANGED <<chunks, audit, results, flags, score, analyzed, launches, call, attempted>>

\* ------------------------- run_audit.py (--max-chunks) and resume_audit.py
\* The script calls run() on the audit with the limit m, in a session of its own.
StartCli(t, m) ==
    /\ tasks[t].kind = "idle"
    /\ tasks' = [tasks EXCEPT ![t] =
          [IdleTask EXCEPT !.kind = "cli", !.pc = "run_begin", !.max_chunks = m]]
    /\ UNCHANGED <<chunks, audit, results, flags, score, analyzed, call, attempted>>

\* ----------------------------------- POST /api/audits/<audit_id>/resume
\* The request handler: 400 for a completed audit; a failed audit becomes running
\* with failure_reason cleared; the background thread is started.
ResumeRequest(t) ==
    /\ tasks[t].kind = "idle"
    /\ audit.status # "completed"
    /\ LET l == IF audit.status = "failed"
                THEN [audit EXCEPT !.status = "running", !.failure_reason = NoReason]
                ELSE audit
       IN /\ audit' = Written(l, audit)
          /\ tasks' = [tasks EXCEPT ![t] =
                [IdleTask EXCEPT !.kind = "resume", !.pc = "rs_thread"]]
    /\ UNCHANGED <<chunks, results, flags, score, analyzed, call, attempted>>

\* resume_audit_background, first statement: current_app is resolved in the new
\* thread, outside the try; without an application context it raises and the
\* thread ends.
ResumeThreadNoContext(t) ==
    /\ tasks[t].pc = "rs_thread"
    /\ tasks' = [tasks EXCEPT ![t] = IdleTask]
    /\ UNCHANGED <<chunks, audit, results, flags, score, analyzed, launches, call, attempted>>

\* resume_audit_background with an application context: "audit" is assigned in
\* the except block, so it is a local of the function and "not audit.is_draft"
\* raises UnboundLocalError before run() is called; the handler marks the audit
\* failed when its committed status is running.
ResumeThreadRun(t) ==
    /\ tasks[t].pc = "rs_thread"
    /\ audit' = IF audit.status = "running"
                THEN [audit EXCEPT !.status = "failed", !.failure_reason = ResumeReason]
                ELSE audit
    /\ tasks' = [tasks EXCEPT ![t] = IdleTask]
    /\ UNCHANGED <<chunks, results, flags, score, analyzed, launches, call, attempted>>

\* ------------------------------------------------ pipelines/chunk.py
\* The chunk pipeline on a document that has no chunks yet.
ChunkCreate(S) ==
    /\ chunks = {}
    /\ S # {}
    /\ chunks' = S
    /\ UNCHANGED <<audit, results, flags, score, tasks, analyzed, launches, call, attempted>>

\* The chunk pipeline with --replace on a document that has chunks.
Rechunk(S) ==
    /\ chunks # {}
    /\ S # {}
    /\ S # chunks
    /\ chunks' = S
    /\ UNCHANGED <<audit, results, flags, score, tasks, analyzed, launches, call, attempted>>

\* -------------------------------------------------------- specifications
TaskStep(t) ==
    \/ UploadStep(t)
    \/ RunStep(t)
    \/ RetryLoop(t)
    \/ ResumeThreadNoContext(t)
    \/ ResumeThreadRun(t)

\* A script or a request that starts while another task may be active: the
\* number of such starts is bounded.
Budget == launches < MaxLaunches /\ launches' = launches + 1

\* Everything may overlap: tasks run side by side and the chunk pipeline may
\* replace the document's chunks at any time.
Next ==
    \/ \E t \in Tasks : TaskStep(t)
    \/ \E t \in Tasks : Budget /\ StartRetry(t)
    \/ \E t \in Tasks, m \in Limits : Budget /\ StartCli(t, m)
    \/ \E t \in Tasks : Budget /\ ResumeRequest(t)
    \/ \E S \in ChunkSets : ChunkCreate(S)
    \/ \E S \in ChunkSets : Rechunk(S)

Spec == Init /\ [][Next]_vars

\* A script, a request or the chunk pipeline starts only when no task is active.
Quiet == AllIdle /\ UNCHANGED launches

\* One task at a time, any number of them, and existing chunks are never replaced.
SeqNext ==
    \/ \E t \in Tasks : TaskStep(t)
    \/ \E t \in Tasks : Quiet /\ StartRetry(t)
    \/ \E t \in Tasks, m \in Limits : Quiet /\ StartCli(t, m)
    \/ \E t \in Tasks : Quiet /\ ResumeRequest(t)
    \/ \E S \in ChunkSets : AllIdle /\ ChunkCreate(S)

SpecSeq == Init /\ [][SeqNext]_vars

\* ------------------------------------------ run() called on its own
\* A document with any chunks and a queued audit of it, nothing running.
InitCall ==
    /\ \E draft \in BOOLEAN, S \in RunChunkSets :
          /\ audit = NewAudit(draft)
          /\ chunks = S
    /\ tasks = [t \in Tasks |-> IdleTask]
    /\ results = [c \in ChunkIds |-> 0]
    /\ flags = {}
    /\ score = NoScore
    /\ analyzed = [c \in ChunkIds |-> 0]
    /\ launches = 0
    /\ attempted = FALSE
    /\ call = NoCall

\* ComplianceRunner(session, config).run(audit_id, max_chunks=m), called
\* directly in a session of its own, as the services' tests call it.
StartCall(t, m) ==
    /\ tasks[t].kind = "idle"
    /\ tasks' = [tasks EXCEPT ![t] =
          [IdleTask EXCEPT !.kind = "call", !.pc = "run_begin", !.max_chunks = m]]
    /\ UNCHANGED <<chunks, audit, results, flags, score, analyzed, call, attempted>>

\* Calls of run() with any max_chunks, one after the other.
CallNext ==
    \/ \E t \in Tasks : RunStep(t)
    \/ \E t \in Tasks, m \in CallLimits : Quiet /\ StartCall(t, m)

SpecCall == InitCall /\ [][CallNext]_vars

\* -------------------------------- a manual upload and nothing after it
\* upload_document has stored the document and its queued audit and started
\* the background thread.
InitUpload ==
    /\ \E draft \in BOOLEAN : audit = NewAudit(draft)
    /\ chunks = {}
    /\ tasks = [t \in Tasks |-> IF t = 1 THEN UploadTask ELSE IdleTask]
    /\ results = [c \in ChunkIds |-> 0]
    /\ flags = {}
    /\ score = NoScore
    /\ analyzed = [c \in ChunkIds |-> 0]
    /\ launches = 0
    /\ attempted = FALSE
    /\ call = NoCall

\* The steps of the background thread, for a document of any number of chunks;
\* no script and no request follows the upload.
UploadNext ==
    \/ \E t \in Tasks : UploadStart(t)
    \/ \E t \in Tasks, S \in RunChunkSets : UploadProcess(t, S)
    \/ \E t \in Tasks : UploadFailNoChunks(t)
    \/ \E t \in Tasks, S \in RunChunkSets : UploadFailEmbedding(t, S)
    \/ \E t \in Tasks : UploadFinish(t)
    \/ \E t \in Tasks : RunStep(t)

\* The thread keeps running until it ends: every step it can take is taken in
\* the end, every call of the analysis client returning or raising.
SpecUpload == InitUpload /\ [][UploadNext]_vars /\ WF_vars(UploadNext)

\* ------------------------------------ calculate_compliance_score
FlagTypes == {"RED", "YELLOW", "GREEN"}

\* Scores are fixed-point numbers counted in units of 1 / ScoreUnit.
ScoreUnit == 1000000

\* decay_factor ** (consecutive - 1), in units of 1 / ScoreUnit, rounded down.
RECURSIVE Decay(_)
Decay(consecutive) ==
    IF consecutive <= 1 THEN ScoreUnit ELSE (Decay(consecutive - 1) * 9) \div 10

\* The lists of at most MaxFlags flags with ids 1..n, as a query returns
\* them: oldest first or newest first.
FlagLists ==
    UNION {{[i \in 1..n |-> [id |-> IF up THEN i ELSE n + 1 - i, flag_type |-> ty[i]]] :
               ty \in [1..n -> FlagTypes], up \in BOOLEAN} : n \in 0..MaxFlags}

\* sorted(flags, key=(created_at, id)): rows are created in id order.
RECURSIVE SortedFlags(_)
SortedFlags(fs) ==
    IF fs = <<>> THEN <<>>
    ELSE LET i == CHOOSE k \in 1..Len(fs) : \A j \in 1..Len(fs) : fs[k].id <= fs[j].id
             others == [k \in 1..(Len(fs) - 1) |-> IF k < i THEN fs[k] ELSE fs[k + 1]]
         IN <<fs[i]>> \o SortedFlags(others)

CountType(fs, ty) == Cardinality({i \in 1..Len(fs) : fs[i].flag_type = ty})

\* The loop over sorted_flags: red_penalty + yellow_penalty, given the
\* consecutive counts reached so far.
RECURSIVE Penalties(_, _, _)
Penalties(fs, consecutive_red, consecutive_yellow) ==
    IF fs = <<>> THEN 0
    ELSE CASE fs[1].flag_type = "RED" ->
                 20 * Decay(consecutive_red + 1)
                    + Penalties(Tail(fs), consecutive_red + 1, 0)
           [] fs[1].flag_type = "YELLOW" ->
                 10 * Decay(consecutive_yellow + 1)
                    + Penalties(Tail(fs), 0, consecutive_yellow + 1)
           [] OTHER -> Penalties(Tail(fs), 0, 0)

Max(a, b) == IF a >= b THEN a ELSE b

Min(a, b) == IF a <= b THEN a ELSE b

\* The score without its final clamp to the range 0-100.
calculate_compliance_score_Unclamped(fs) ==
    IF fs = <<>> THEN 100 * ScoreUnit
    ELSE IF CountType(fs, "RED") = Len(fs) \/ CountType(fs, "GREEN") = Len(fs) THEN 0
    ELSE 100 * ScoreUnit - Penalties(SortedFlags(fs), 0, 0)

\* calculate_compliance_score(flags), in units of 1 / ScoreUnit.
calculate_compliance_score(fs) ==
    IF fs = <<>> THEN 100 * ScoreUnit
    ELSE IF CountType(fs, "RED") = Len(fs) \/ CountType(fs, "GREEN") = Len(fs) THEN 0
    ELSE Max(0, Min(100 * ScoreUnit, 100 * ScoreUnit - Penalties(SortedFlags(fs), 0, 0)))

\* A list of flags handed to the score function.
InitScore ==
    /\ audit = NewAudit(FALSE)
    /\ chunks = {}
    /\ tasks = [t \in Tasks |-> IdleTask]
    /\ results = [c \in ChunkIds |-> 0]
    /\ flags = {}
    /\ score = NoScore
    /\ analyzed = [c \in ChunkIds |-> 0]
    /\ launches = 0
    /\ attempted = FALSE
    /\ \E fs \in FlagLists : call = [fn |-> "score", flags |-> fs, done |-> FALSE, out |-> 0]

ScoreCall ==
    /\ call.fn = "score"
    /\ ~call.done
    /\ call' = [call EXCEPT !.done = TRUE, !.out = calculate_compliance_score(call.flags)]
    /\ UNCHANGED <<chunks, audit, results, flags, score, tasks, analyzed, launches, attempted>>

SpecScore == InitScore /\ [][ScoreCall]_vars

\* ------------------------------------ FlagSynthesizer.upsert_flag
MaxRefs == 2

\* analysis["flag"]: absent, or a text the model returned.
FlagInputs == {"none", "RED", " yellow ", "GREEN", "maybe"}

\* (flag or "").strip().upper()
Normalized(flag) ==
    CASE flag = "none" -> ""
      [] flag = " yellow " -> "YELLOW"
      [] flag = "maybe" -> "MAYBE"
      [] OTHER -> flag

Severities == {0 - 5, 0, 50, 80}

resolve_flag_type(flag, severity_score) ==
    IF Normalized(flag) \in FlagTypes THEN Normalized(flag)
    ELSE IF severity_score >= 80 THEN "RED"
    ELSE IF severity_score >= 50 THEN "YELLOW"
    ELSE "GREEN"

\* Section references as they arrive; "" stands for an empty or missing one.
References == {"", "2.0", " 2.0", "145.A.30"}

\* str(ref).strip()
Strip(ref) == IF ref = " 2.0" THEN "2.0" ELSE ref

RefLists == UNION {[1..n -> References] : n \in 0..MaxRefs}

Analyses ==
    [flag : FlagInputs, severity_score : Severities,
     manual_section : {"", "2.0"}, regulation_sections : RefLists]

RECURSIVE RegulationCitations(_)
RegulationCitations(refs) ==
    IF refs = <<>> THEN <<>>
    ELSE (IF Head(refs) # ""
          THEN <<[citation_type |-> "regulation", reference |-> Strip(Head(refs))]>>
          ELSE <<>>) \o RegulationCitations(Tail(refs))

\* The citations upsert_flag appends after flag.citations.clear().
Citations(x) ==
    (IF x.manual_section # ""
     THEN <<[citation_type |-> "manual", reference |-> Strip(x.manual_section)]>>
     ELSE <<>>) \o RegulationCitations(x.regulation_sections)

\* The Flag of (audit_id, chunk_id) as upsert_flag leaves it.
FlagRow(x) ==
    [flag_type |-> resolve_flag_type(x.flag, x.severity_score),
     severity_score |-> x.severity_score,
     citations |-> Citations(x)]

\* A Flag of (audit_id, chunk_id) stored by an earlier run.
OldFlagRow ==
    [flag_type |-> "GREEN", severity_score |-> 20,
     citations |-> <<[citation_type |-> "manual", reference |-> "1.0"]>>]

\* upsert_flag on the session se: the SELECT sees the flushed rows only (the
\* session is made with autoflush=False); the Flag found is changed in place,
\* and when none is found a new Flag is added to the session.
upsert_flag(se, x) ==
    IF se.rows # <<>>
    THEN [se EXCEPT !.dirty = <<FlagRow(x)>>]
    ELSE [se EXCEPT !.pending = Append(se.pending, FlagRow(x))]

\* The unique index uq_flag_audit_chunk refuses a second Flag of the pair.
IntegrityError(se) == Len(se.rows) + Len(se.pending) > 1

\* session.flush() or session.commit(): the changed Flag is updated and the new
\* ones inserted; on an IntegrityError nothing is written.
Flushed(se) ==
    IF IntegrityError(se) THEN [se EXCEPT !.dirty = <<>>, !.pending = <<>>]
    ELSE [rows |-> (IF se.dirty # <<>> THEN se.dirty ELSE se.rows) \o se.pending,
          dirty |-> <<>>, pending |-> <<>>]

\* Two calls of upsert_flag with one analysis, on a pair with or without a Flag.
InitFlag ==
    /\ audit = NewAudit(FALSE)
    /\ chunks = {}
    /\ tasks = [t \in Tasks |-> IdleTask]
    /\ results = [c \in ChunkIds |-> 0]
    /\ flags = {}
    /\ score = NoScore
    /\ analyzed = [c \in ChunkIds |-> 0]
    /\ launches = 0
    /\ attempted = FALSE
    /\ \E x \in Analyses, old \in {<<>>, <<OldFlagRow>>} :
          call = [fn |-> "upsert", analysis |-> x,
                  session |-> [rows |-> old, dirty |-> <<>>, pending |-> <<>>],
                  calls |-> 0, first |-> <<>>, failed |-> FALSE, ended |-> FALSE]

\* One call upsert_flag(A, C, X); after the first one, "first" keeps what a
\* commit at that point stores.
UpsertFlagCall ==
    /\ call.fn = "upsert"
    /\ call.calls < 2
    /\ LET se == upsert_flag(call.session, call.analysis)
       IN call' = [call EXCEPT !.session = se, !.calls = @ + 1,
                               !.first = IF call.calls = 0 THEN Flushed(se).rows ELSE @]
    /\ UNCHANGED <<chunks, audit, results, flags, score, tasks, analyzed, launches, attempted>>

\* The caller flushes or commits between the two calls.
SessionFlush ==
    /\ call.fn = "upsert"
    /\ call.calls = 1
    /\ call.session.dirty # <<>> \/ call.session.pending # <<>>
    /\ call' = [call EXCEPT !.session = Flushed(call.session)]
    /\ UNCHANGED <<chunks, audit, results, flags, score, tasks, analyzed, launches, attempted>>

\* The caller commits after the second call.
SessionCommit ==
    /\ call.fn = "upsert"
    /\ call.calls = 2
    /\ ~call.ended
    /\ call' = [call EXCEPT !.session = Flushed(call.session),
                            !.failed = IntegrityError(call.session),
                            !.ended = TRUE]
    /\ UNCHANGED <<chunks, audit, results, flags, score, tasks, analyzed, launches, attempted>>

FlagNext == UpsertFlagCall \/ SessionFlush \/ SessionCommit

SpecFlag == InitFlag /\ [][FlagNext]_vars


\* ------------------------------------ ContextBuilder.build_context
MaxBudget == 2
MaxTokens == 2
MaxSlices == 2

\* The buckets in the order build_context fills them.
Buckets == <<"manual", "regulation", "guidance", "evidence">>

\* budget_multiplier in halves: 0.5 for a draft, 1.0, and 1.5 for a refinement.
MultiplierHalves == {1, 2, 3}

\* int(budget * budget_multiplier)
Scaled(budget, halves) == (budget * halves) \div 2

\* The token counts of the candidate slices collected for one bucket.
SliceLists == UNION {[1..n -> 0..MaxTokens] : n \in 0..MaxSlices}

\* TokenBudget(total_limit)
TokenBudget(total_limit) ==
    [total_limit |-> Max(0, total_limit), total_used |-> 0,
     bucket_used |-> [b \in {Buckets[k] : k \in 1..Len(Buckets)} |-> 0],
     truncated |-> FALSE]

\* TokenBudget.allow: the value it returns.
Allowed(budget, bucket, token_limit, tokens) ==
    /\ ~(token_limit <= 0 \/ tokens <= 0)
    /\ ~(budget.total_used + tokens > budget.total_limit)
    /\ ~(budget.bucket_used[bucket] + tokens > token_limit)

\* TokenBudget.allow: the budget it leaves.
allow(budget, bucket, token_limit, tokens) ==
    IF token_limit <= 0 \/ tokens <= 0 THEN budget
    ELSE IF budget.total_used + tokens > budget.total_limit
         THEN [budget EXCEPT !.truncated = TRUE]
    ELSE IF budget.bucket_used[bucket] + tokens > token_limit
         THEN [budget EXCEPT !.truncated = TRUE]
    ELSE [budget EXCEPT !.total_used = @ + tokens, !.bucket_used[bucket] = @ + tokens]

\* _apply_budget: slices are accepted in order until allow refuses one.
RECURSIVE apply_budget(_, _, _, _)
apply_budget(budget, bucket, limit, slices) ==
    IF slices = <<>> THEN budget
    ELSE IF Allowed(budget, bucket, limit, Head(slices))
         THEN apply_budget(allow(budget, bucket, limit, Head(slices)), bucket, limit, Tail(slices))
         ELSE allow(budget, bucket, limit, Head(slices))

\* The number of slices _apply_budget accepts.
RECURSIVE Accepted(_, _, _, _)
Accepted(budget, bucket, limit, slices) ==
    IF slices = <<>> \/ ~Allowed(budget, bucket, limit, Head(slices)) THEN 0
    ELSE 1 + Accepted(allow(budget, bucket, limit, Head(slices)), bucket, limit, Tail(slices))

\* build_context is called with some configured budgets and a multiplier.
InitContext ==
    /\ audit = NewAudit(FALSE)
    /\ chunks = {}
    /\ tasks = [t \in Tasks |-> IdleTask]
    /\ results = [c \in ChunkIds |-> 0]
    /\ flags = {}
    /\ score = NoScore
    /\ analyzed = [c \in ChunkIds |-> 0]
    /\ launches = 0
    /\ attempted = FALSE
    /\ \E total \in 0..MaxBudget, halves \in MultiplierHalves, include_evidence \in BOOLEAN,
          config \in [{Buckets[k] : k \in 1..Len(Buckets)} -> 0..MaxBudget] :
          call = [fn |-> "context",
                  total_token_budget |-> Scaled(total, halves),
                  limit |-> [b \in DOMAIN config |-> Scaled(config[b], halves)],
                  include_evidence |-> include_evidence,
                  next |-> 1,
                  budget |-> TokenBudget(Scaled(total, halves)),
                  refused |-> FALSE,
                  done |-> FALSE,
                  bundle |-> [total_tokens |-> 0, truncated |-> FALSE,
                              token_breakdown |-> [b \in DOMAIN config |-> 0]]]

\* build_context, one bucket: the candidates "slices" are collected and
\* _apply_budget keeps those the budget admits. "refused" records that allow
\* turned down a candidate that has tokens.
CollectAndApplyBudget(slices) ==
    /\ call.fn = "context"
    /\ call.next <= Len(Buckets)
    /\ LET bucket == Buckets[call.next]
           skip == bucket = "evidence" /\ ~call.include_evidence
           kept == Accepted(call.budget, bucket, call.limit[bucket], slices)
       IN /\ skip => slices = <<>>
          /\ call' = [call EXCEPT
                !.next = @ + 1,
                !.budget = apply_budget(@, bucket, call.limit[bucket], slices),
                !.refused = @ \/ (kept < Len(slices) /\ slices[kept + 1] > 0)]
    /\ UNCHANGED <<chunks, audit, results, flags, score, tasks, analyzed, launches, attempted>>

\* build_context, its end: the bundle takes the budget's totals.
BuildContextReturn ==
    /\ call.fn = "context"
    /\ call.next = Len(Buckets) + 1
    /\ ~call.done
    /\ call' = [call EXCEPT
          !.done = TRUE,
          !.bundle = [total_tokens |-> call.budget.total_used,
                      truncated |-> call.budget.truncated,
                      token_breakdown |-> call.budget.bucket_used]]
    /\ UNCHANGED <<chunks, audit, results, flags, score, tasks, analyzed, launches, attempted>>

ContextNext ==
    \/ \E slices \in SliceLists : CollectAndApplyBudget(slices)
    \/ BuildContextReturn

SpecContext == InitContext /\ [][ContextNext]_vars


\* ------------------- ComplianceRunner._analyze_with_optional_refinement
MaxAttempts == 2

\* The limit the recursive builder raises max_refinement_attempts to.
RecursiveAttempts == 5

\* config.refinement_max_attempts as configured, negative values included.
AttemptSettings == (0 - 1)..MaxAttempts

\* analysis["context_query"]: missing or empty, or one of two search texts.
Queries == {"", "q1", "q2"}

\* What the analysis client returns, as far as the loop reads it.
Answers == [needs_additional_context : BOOLEAN, context_query : Queries]

\* max_refinement_attempts as the function computes it.
max_refinement_attempts(is_draft, recursive, setting) ==
    LET base == IF ~is_draft THEN Max(0, setting) ELSE 0
    IN IF recursive THEN Max(base, RecursiveAttempts) ELSE base

\* "if not is_draft": the loop is skipped for a draft.
RefinementEnabled_Always(c) == TRUE

RefinementEnabled(c) == ~c.is_draft

\* The condition of the while loop.
LoopContinues(c) ==
    /\ RefinementEnabled(c)
    /\ c.analysis.needs_additional_context
    /\ c.attempts < max_refinement_attempts(c.is_draft, c.recursive, c.setting)

\* The function is called for a chunk: a draft or not, with the plain or the
\* recursive context builder, under some configured number of attempts.
InitRefine ==
    /\ audit = NewAudit(FALSE)
    /\ chunks = {}
    /\ tasks = [t \in Tasks |-> IdleTask]
    /\ results = [c \in ChunkIds |-> 0]
    /\ flags = {}
    /\ score = NoScore
    /\ analyzed = [c \in ChunkIds |-> 0]
    /\ launches = 0
    /\ attempted = FALSE
    /\ \E is_draft \in BOOLEAN, recursive \in BOOLEAN, setting \in AttemptSettings :
          call = [fn |-> "refine", is_draft |-> is_draft, recursive |-> recursive,
                  setting |-> setting, pc |-> "initial",
                  analysis |-> [needs_additional_context |-> FALSE, context_query |-> ""],
                  attempts |-> 0, client_calls |-> 0, retrievals |-> 0, reanalyses |-> 0,
                  refined |-> FALSE, refinement_attempts |-> 0]

\* The first context and the first analysis.
AnalyzeInitial(answer) ==
    /\ call.fn = "refine"
    /\ call.pc = "initial"
    /\ call' = [call EXCEPT !.pc = "loop", !.analysis = answer, !.client_calls = @ + 1]
    /\ UNCHANGED <<chunks, audit, results, flags, score, tasks, analyzed, launches, attempted>>

\* One pass of the loop that ends at the "break" for a missing context_query:
\* attempts has been raised already.
RefineWithoutQuery ==
    /\ call.fn = "refine"
    /\ call.pc = "loop"
    /\ LoopContinues(call)
    /\ call.analysis.context_query = ""
    /\ call' = [call EXCEPT !.pc = "after", !.attempts = @ + 1]
    /\ UNCHANGED <<chunks, audit, results, flags, score, tasks, analyzed, launches, attempted>>

\* One full pass of the loop: a context built for context_query, the chunk
\* analyzed again; from the third attempt on an unchanged query ends the loop.
RefineAttempt(answer) ==
    /\ call.fn = "refine"
    /\ call.pc = "loop"
    /\ LoopContinues(call)
    /\ call.analysis.context_query # ""
    /\ call' = [call EXCEPT
          !.attempts = @ + 1,
          !.retrievals = @ + 1,
          !.client_calls = @ + 1,
          !.reanalyses = @ + 1,
          !.analysis = answer,
          !.pc = IF /\ answer.needs_additional_context
                    /\ call.attempts + 1 >= 3
                    /\ answer.context_query = call.analysis.context_query
                 THEN "after" ELSE "loop"]
    /\ UNCHANGED <<chunks, audit, results, flags, score, tasks, analyzed, launches, attempted>>

\* After the loop: "if attempts:" marks the analysis, which is returned.
RefineReturn ==
    /\ call.fn = "refine"
    /\ \/ call.pc = "after"
       \/ call.pc = "loop" /\ ~LoopContinues(call)
    /\ call' = [call EXCEPT
          !.pc = "returned",
          !.refined = call.attempts # 0,
          !.refinement_attempts = IF call.attempts # 0 THEN call.attempts ELSE 0]
    /\ UNCHANGED <<chunks, audit, results, flags, score, tasks, analyzed, launches, attempted>>

RefineNext ==
    \/ \E answer \in Answers : AnalyzeInitial(answer)
    \/ RefineWithoutQuery
    \/ \E answer \in Answers : RefineAttempt(answer)
    \/ RefineReturn

SpecRefine == InitRefine /\ [][RefineNext]_vars


\* ------------------------------------ ContextBuilder._vector_query
MaxFocus == 1

\* The chunks a runner's context builder is asked about.
FocusChunks == 1..MaxFocus

\* A query text: its first 50 characters ("head") and what follows ("tail").
\* ContentOf(c) is the content of chunk c.
ContentOf(c) == [head |-> "content", tail |-> c]

ContextQueries == [head : {"qa", "qb"}, tail : {1, 2}]

Collections == {"manual_chunks", "regulation_chunks"}

\* The document filter of a lookup: the chunk's document, or none.
DocumentFilters == {"none", "doc"}

NoResult == [collection |-> "none", query_text |-> ContentOf(0), document_id |-> "none"]

\* What the vector client answers: the model names a result after the
\* collection, the query text and the filter it was computed for.
VectorResult(collection, query_text, document_id) ==
    [collection |-> collection, query_text |-> query_text, document_id |-> document_id]

\* The cache_key arguments the callers build: chunk.chunk_id in
\* _collect_vector_context, f"{chunk_id}_concept_{query[:50]}" and
\* f"{chunk_id}_concept_reg_{query[:50]}" in _search_for_concept.
PlainKey(c) == [chunk |-> c, kind |-> "plain", head |-> ""]
ConceptKey(c, q) == [chunk |-> c, kind |-> "concept", head |-> q.head]
ConceptRegKey(c, q) == [chunk |-> c, kind |-> "concept_reg", head |-> q.head]

\* key = (collection, cache_key, document_id): the query text is not part of it.
CacheKey(collection, query_text, cache_key, document_id) ==
    <<collection, cache_key, document_id>>

\* The cache holds (key, result) pairs, one per key.
Cached(cache, key) == {e \in cache : e.key = key}

\* _vector_query: the cached result of the key when there is one, else the
\* vector client's answer, which is stored under the key.
vector_query(cache, collection, query_text, cache_key, document_id) ==
    LET key == CacheKey(collection, query_text, cache_key, document_id)
    IN IF Cached(cache, key) # {}
       THEN [cache |-> cache, matches |-> (CHOOSE e \in Cached(cache, key) : TRUE).result]
       ELSE LET r == VectorResult(collection, query_text, document_id)
            IN [cache |-> cache \cup {[key |-> key, result |-> r]}, matches |-> r]

\* A context builder with an empty cache.
InitCache ==
    /\ audit = NewAudit(FALSE)
    /\ chunks = {}
    /\ tasks = [t \in Tasks |-> IdleTask]
    /\ results = [c \in ChunkIds |-> 0]
    /\ flags = {}
    /\ score = NoScore
    /\ analyzed = [c \in ChunkIds |-> 0]
    /\ launches = 0
    /\ attempted = FALSE
    /\ call = [fn |-> "cache", cache |-> {}, asked |-> NoResult, matches |-> NoResult,
               refinement |-> FALSE]

\* The lookup a caller made and what it received.
Lookup(out, collection, query_text, document_id, refinement) ==
    /\ call' = [call EXCEPT !.cache = out.cache,
                            !.asked = VectorResult(collection, query_text, document_id),
                            !.matches = out.matches,
                            !.refinement = refinement]
    /\ UNCHANGED <<chunks, audit, results, flags, score, tasks, analyzed, launches, attempted>>

\* _collect_vector_context for chunk c in build_context without context_query:
\* the query is the chunk's content, the cache_key the chunk's id.
CollectVectorContext(c, collection) ==
    /\ call.fn = "cache"
    /\ LET document_id == IF collection = "manual_chunks" THEN "doc" ELSE "none"
       IN Lookup(vector_query(call.cache, collection, ContentOf(c), PlainKey(c), document_id),
                 collection, ContentOf(c), document_id, FALSE)

\* _collect_vector_context in a refinement's build_context: query_override is
\* context_query, the cache_key is still the chunk's id.
CollectRefinementContext(c, collection, q) ==
    /\ call.fn = "cache"
    /\ LET document_id == IF collection = "manual_chunks" THEN "doc" ELSE "none"
       IN Lookup(vector_query(call.cache, collection, q, PlainKey(c), document_id),
                 collection, q, document_id, TRUE)

\* _search_for_concept, its search of the manual for context_query.
SearchForConcept(c, q) ==
    /\ call.fn = "cache"
    /\ Lookup(vector_query(call.cache, "manual_chunks", q, ConceptKey(c, q), "doc"),
              "manual_chunks", q, "doc", TRUE)

\* _search_for_concept, its search of the regulations for context_query.
SearchForConceptRegulation(c, q) ==
    /\ call.fn = "cache"
    /\ Lookup(vector_query(call.cache, "regulation_chunks", q, ConceptRegKey(c, q), "none"),
              "regulation_chunks", q, "none", TRUE)

CacheNext ==
    \/ \E c \in FocusChunks, collection \in Collections : CollectVectorContext(c, collection)
    \/ \E c \in FocusChunks, collection \in Collections, q \in ContextQueries :
          CollectRefinementContext(c, collection, q)
    \/ \E c \in FocusChunks, q \in ContextQueries : SearchForConcept(c, q)
    \/ \E c \in FocusChunks, q \in ContextQueries : SearchForConceptRegulation(c, q)

SpecCache == InitCache /\ [][CacheNext]_vars


\* ------------------------------------ ComplianceLLMClient.analyze
MaxRetries == 3

\* The longest wait before a retry, in seconds.
MaxWait == 120

\* What one POST brings: an HTTP status, or a transport error; a 200 carries a
\* content that validates as a ChunkAnalysis or does not.
Responses == {"ok", "invalid", "429", "404", "500", "transport"}

\* The Retry-After header of a 429: absent (NoHeader), not a number
\* (BadHeader), or a number of seconds.
NoHeader == 0 - 1000
BadHeader == 0 - 1001
RetryAfterHeaders == {NoHeader, BadHeader, 0 - 5, 0, 5, 200}

\* backoff_base * (2 ** (attempt - 1))
RECURSIVE Backoff(_)
Backoff(attempt) == IF attempt <= 1 THEN 10 ELSE 2 * Backoff(attempt - 1)

\* The wait without the cap of 120 seconds.
WaitTime_Uncapped(header, attempt) ==
    IF header \notin {NoHeader, BadHeader} /\ header # 0
    THEN header
    ELSE Backoff(attempt)

\* wait_time of the 429 branch: Retry-After when it is a number other than 0,
\* else the exponential backoff; both capped at 120.
WaitTime(header, attempt) ==
    IF header \notin {NoHeader, BadHeader} /\ header # 0
    THEN Min(header, MaxWait)
    ELSE Min(Backoff(attempt), MaxWait)

\* analyze() is called with some max_retries.
InitAnalyze ==
    /\ audit = NewAudit(FALSE)
    /\ chunks = {}
    /\ tasks = [t \in Tasks |-> IdleTask]
    /\ results = [c \in ChunkIds |-> 0]
    /\ flags = {}
    /\ score = NoScore
    /\ analyzed = [c \in ChunkIds |-> 0]
    /\ launches = 0
    /\ attempted = FALSE
    /\ \E max_retries \in 0..MaxRetries :
          call = [fn |-> "analyze", max_retries |-> max_retries, attempt |-> 1,
                  pc |-> "loop", posts |-> 0, sleeps |-> 0, longest_wait |-> 0,
                  only_429 |-> TRUE, seen_404 |-> FALSE, posts_after_404 |-> 0]

\* One pass of the for loop: the POST and what the loop does with the response.
\* Every error of the pass is caught at "except (httpx.HTTPError, ValidationError,
\* ValueError)" and the loop goes on with the next attempt.
Post(response, header) ==
    /\ call.fn = "analyze"
    /\ call.pc = "loop"
    /\ call.attempt <= call.max_retries
    /\ response # "429" => header = NoHeader
    /\ LET wait == WaitTime(header, call.attempt)
           sleeps == response = "429" /\ call.attempt < call.max_retries /\ wait >= 0
       IN call' = [call EXCEPT
             !.posts = @ + 1,
             !.posts_after_404 = IF call.seen_404 THEN @ + 1 ELSE @,
             !.seen_404 = @ \/ response = "404",
             !.only_429 = @ /\ response = "429",
             !.sleeps = IF sleeps THEN @ + 1 ELSE @,
             !.longest_wait = IF sleeps THEN Max(@, wait) ELSE @,
             !.attempt = IF response = "ok" THEN @ ELSE @ + 1,
             !.pc = IF response = "ok" THEN "returned" ELSE "loop"]
    /\ UNCHANGED <<chunks, audit, results, flags, score, tasks, analyzed, launches, attempted>>

\* After the loop: raise OpenRouterError("Unable to obtain valid analysis").
AnalyzeRaise ==
    /\ call.fn = "analyze"
    /\ call.pc = "loop"
    /\ call.attempt > call.max_retries
    /\ call' = [call EXCEPT !.pc = "raised"]
    /\ UNCHANGED <<chunks, audit, results, flags, score, tasks, analyzed, launches, attempted>>

AnalyzeNext ==
    \/ \E response \in Responses, header \in RetryAfterHeaders : Post(response, header)
    \/ AnalyzeRaise

SpecAnalyze == InitAnalyze /\ [][AnalyzeNext]_vars

\* --------------------- RecursiveContextBuilder.build_recursive_context
MaxNodes == 2
MaxDepth == 2
ManualCap == 50
LitigationCap == 20

\* Chunk ids by the collection that holds them: sections of the manual (the
\* focus chunk is the first), regulation, guidance and evidence chunks.
ManualIds == 1..MaxNodes
FocusId == CHOOSE c \in ManualIds : \A d \in ManualIds : c <= d
RegulationIds == {MaxNodes + 1}
GuidanceIds == {MaxNodes + 2}
EvidenceIds == {MaxNodes + 3}

\* The elements of a list.
Range(s) == {s[k] : k \in 1..Len(s)}

\* The result lists a vector query can return over a collection: no id twice.
Matches(S) ==
    {s \in UNION {[1..n -> S] : n \in 0..Cardinality(S)} : Cardinality(Range(s)) = Len(s)}

\* token_estimator.count(content) of every slice of a list: each content
\* counts one token.
TokenCounts(s) == [k \in 1..Len(s) |-> 1]

\* The slices of "new" that "if not any(c.metadata.get("chunk_id") == ...)"
\* lets into the list.
NotPresent(list, new) == SelectSeq(new, LAMBDA x : x \notin Range(list))

\* The queue entries for the slices just added: those not processed, one level down.
Queued(added, processed, depth) ==
    LET fresh == SelectSeq(added, LAMBDA x : x \notin processed)
    IN [k \in 1..Len(fresh) |-> <<fresh[k], depth + 1>>]

\* The two "continue" tests at the head of the while loop.
Skips_ProcessedOnly(chunk_id, depth, processed, max_depth) == chunk_id \in processed

Skips(chunk_id, depth, processed, max_depth) ==
    depth >= max_depth \/ chunk_id \in processed

\* build_recursive_context is called on a builder with some max_depth, whose
\* base builder has some total budget and some budget per bucket.
InitRecursive ==
    /\ audit = NewAudit(FALSE)
    /\ chunks = {}
    /\ tasks = [t \in Tasks |-> IdleTask]
    /\ results = [c \in ChunkIds |-> 0]
    /\ flags = {}
    /\ score = NoScore
    /\ analyzed = [c \in ChunkIds |-> 0]
    /\ launches = 0
    /\ attempted = FALSE
    /\ \E total \in 0..MaxBudget, limit \in 0..MaxBudget, max_depth \in 1..MaxDepth,
          include_evidence \in BOOLEAN :
          call = [fn |-> "recursive", pc |-> "base",
                  total_token_budget |-> total, limit |-> limit,
                  max_depth |-> max_depth, include_evidence |-> include_evidence,
                  base_truncated |-> FALSE,
                  chunks_to_process |-> <<>>, processed |-> {},
                  times |-> [c \in ManualIds \cup EvidenceIds |-> 0],
                  deepest |-> 0, pops |-> 0,
                  all_manual_chunks |-> <<>>, all_regulation_chunks |-> <<>>,
                  all_guidance_chunks |-> <<>>, all_litigation_chunks |-> <<>>,
                  evidence_slices |-> <<>>,
                  bundle |-> [manual_neighbors |-> <<>>, regulation_slices |-> <<>>,
                              guidance_slices |-> <<>>, evidence_slices |-> <<>>,
                              total_tokens |-> 0, truncated |-> FALSE]]

\* base_builder.build_context and the start of the queue: the candidates of the
\* four buckets go through _apply_budget in turn, then the focus chunk is queued
\* at depth 0.
BuildBase(manual, regulation, guidance, evidence) ==
    /\ call.fn = "recursive"
    /\ call.pc = "base"
    /\ ~call.include_evidence => evidence = <<>>
    /\ LET limit == call.limit
           b0 == TokenBudget(call.total_token_budget)
           b1 == apply_budget(b0, "manual", limit, TokenCounts(manual))
           b2 == apply_budget(b1, "regulation", limit, TokenCounts(regulation))
           b3 == apply_budget(b2, "guidance", limit, TokenCounts(guidance))
           b4 == apply_budget(b3, "evidence", limit, TokenCounts(evidence))
       IN call' = [call EXCEPT
             !.pc = "loop",
             !.base_truncated = b4.truncated,
             !.chunks_to_process = <<<<FocusId, 0>>>>,
             !.all_manual_chunks =
                 Take(manual, Accepted(b0, "manual", limit, TokenCounts(manual))),
             !.all_regulation_chunks =
                 Take(regulation, Accepted(b1, "regulation", limit, TokenCounts(regulation))),
             !.all_guidance_chunks =
                 Take(guidance, Accepted(b2, "guidance", limit, TokenCounts(guidance))),
             !.evidence_slices =
                 Take(evidence, Accepted(b3, "evidence", limit, TokenCounts(evidence)))]
    /\ UNCHANGED <<chunks, audit, results, flags, score, tasks, analyzed, launches, attempted>>

\* One pass of the while loop. The entry at the head of the queue is taken; it
\* is skipped at max_depth, when already processed, or (after being marked
\* processed) when load_chunk finds no row. Otherwise "ref_chunks" are the
\* sections found for its references, "reg_chunks" the regulations found for
\* them and "litigation_chunks" the result of _find_litigation. For the focus
\* chunk _find_litigation asks evidence_chunks with the text build_context asked
\* it with, and for more matches, so its result holds the base bundle's evidence.
ProcessChunk(exists, ref_chunks, reg_chunks, litigation_chunks) ==
    /\ call.fn = "recursive"
    /\ call.pc = "loop"
    /\ call.chunks_to_process # <<>>
    /\ LET current_chunk_id == Head(call.chunks_to_process)[1]
           depth == Head(call.chunks_to_process)[2]
           rest == Tail(call.chunks_to_process)
           processed == call.processed \cup {current_chunk_id}
           new_manual == NotPresent(call.all_manual_chunks, ref_chunks)
           new_litigation == NotPresent(call.all_litigation_chunks, litigation_chunks)
       IN /\ current_chunk_id = FocusId =>
                 exists /\ Range(call.evidence_slices) \subseteq Range(litigation_chunks)
          /\ current_chunk_id \in EvidenceIds => ref_chunks = <<>>
          /\ IF Skips(current_chunk_id, depth, call.processed, call.max_depth)
             THEN /\ exists /\ ref_chunks = <<>> /\ reg_chunks = <<>>
                  /\ litigation_chunks = <<>>
                  /\ call' = [call EXCEPT !.chunks_to_process = rest, !.pops = @ + 1]
             ELSE IF ~exists
             THEN /\ ref_chunks = <<>> /\ reg_chunks = <<>> /\ litigation_chunks = <<>>
                  /\ call' = [call EXCEPT !.chunks_to_process = rest, !.pops = @ + 1,
                                          !.processed = processed]
             ELSE call' = [call EXCEPT
                     !.pops = @ + 1,
                     !.processed = processed,
                     !.times[current_chunk_id] = @ + 1,
                     !.deepest = Max(@, depth),
                     !.all_manual_chunks = @ \o new_manual,
                     !.all_regulation_chunks = @ \o NotPresent(@, reg_chunks),
                     !.all_litigation_chunks = @ \o new_litigation,
                     !.chunks_to_process =
                         rest \o Queued(new_manual, processed, depth)
                              \o Queued(new_litigation, processed, depth)]
    /\ UNCHANGED <<chunks, audit, results, flags, score, tasks, analyzed, launches, attempted>>

\* "Build final bundle": the lists are cut, the litigation chunks are appended
\* to the base bundle's evidence, total_tokens is counted again over the focus
\* and every slice, and truncated keeps the default of ContextBundle.
BuildFinal ==
    /\ call.fn = "recursive"
    /\ call.pc = "loop"
    /\ call.chunks_to_process = <<>>
    /\ LET manual_neighbors == Take(call.all_manual_chunks, ManualCap)
           regulation_slices == Take(call.all_regulation_chunks, ManualCap)
           guidance_slices == Take(call.all_guidance_chunks, ManualCap)
           evidence_slices ==
               call.evidence_slices \o Take(call.all_litigation_chunks, LitigationCap)
       IN call' = [call EXCEPT
             !.pc = "done",
             !.bundle = [manual_neighbors |-> manual_neighbors,
                         regulation_slices |-> regulation_slices,
                         guidance_slices |-> guidance_slices,
                         evidence_slices |-> evidence_slices,
                         total_tokens |-> 1 + Len(manual_neighbors) + Len(regulation_slices)
                                            + Len(guidance_slices) + Len(evidence_slices),
                         truncated |-> FALSE]]
    /\ UNCHANGED <<chunks, audit, results, flags, score, tasks, analyzed, launches, attempted>>

RecursiveNext ==
    \/ \E manual \in Matches(ManualIds \ {FocusId}), regulation \in Matches(RegulationIds),
          guidance \in Matches(GuidanceIds), evidence \in Matches(EvidenceIds) :
          BuildBase(manual, regulation, guidance, evidence)
    \/ \E exists \in BOOLEAN, ref_chunks \in Matches(ManualIds),
          reg_chunks \in Matches(RegulationIds), litigation_chunks \in Matches(EvidenceIds) :
          ProcessChunk(exists, ref_chunks, reg_chunks, litigation_chunks)
    \/ BuildFinal

SpecRecursive == InitRecursive /\ [][RecursiveNext]_vars

\* ----------------------------------------- SemanticChunker.chunk_sections
MaxText == 5
MaxSize == 2
MaxWindows == 6

\* The normalized content of a non-empty section: _prepare_section_content has
\* stripped it, so it begins and ends with a character that is not a blank.
SectionTexts ==
    {s \in UNION {[1..n -> {"a", " "}] : n \in 1..MaxText} : s[1] = "a" /\ s[Len(s)] = "a"}

\* text[:k] and text[a:b]
Prefix(text, k) == SubSeq(text, 1, Min(Len(text), Max(k, 0)))

Slice(text, a, b) == SubSeq(text, a + 1, Min(Len(text), b))

\* str.strip(): the text without its leading and trailing blanks.
StripText(text) ==
    LET filled == {k \in 1..Len(text) : text[k] # " "}
    IN IF filled = {} THEN <<>>
       ELSE SubSeq(text, CHOOSE k \in filled : \A j \in filled : k <= j,
                         CHOOSE k \in filled : \A j \in filled : k >= j)

\* _token_length: with an encoding every character here is one token; without
\* one it is max(1, ceil(len(text) / 4)).
token_length(encoding, text) ==
    IF encoding THEN Len(text) ELSE Max(1, (Len(text) + 3) \div 4)

\* _truncate_section
truncate_section(encoding, limit, text) ==
    IF limit <= 0 THEN text
    ELSE IF ~encoding THEN Prefix(text, limit * 4)
    ELSE IF Len(text) <= limit THEN text
    ELSE Prefix(text, limit)

\* The window and the overlap _split_text works with: tokens for
\* _split_token_ids, characters for _split_characters.
WindowSize(encoding, size) == IF encoding THEN size ELSE Max(1, size * 4)

WindowOverlap(encoding, overlap) == IF encoding THEN overlap ELSE Max(0, overlap * 4)

\* "for chunk_idx, chunk_text in enumerate(splits)": the stripped splits that
\* are not empty become the payloads.
Payloads(splits) ==
    LET cleaned == [k \in 1..Len(splits) |-> StripText(splits[k])]
    IN SelectSeq(cleaned, LAMBDA t : t # <<>>)

\* chunk_sections is called on one section, by a chunker with some configuration,
\* with or without a loaded encoding.
InitChunk ==
    /\ audit = NewAudit(FALSE)
    /\ chunks = {}
    /\ tasks = [t \in Tasks |-> IdleTask]
    /\ results = [c \in ChunkIds |-> 0]
    /\ flags = {}
    /\ score = NoScore
    /\ analyzed = [c \in ChunkIds |-> 0]
    /\ launches = 0
    /\ attempted = FALSE
    /\ \E text \in SectionTexts, size \in 0..MaxSize, overlap \in 0..MaxSize,
          max_section_tokens \in 0..MaxSize, encoding \in BOOLEAN, section_aware \in BOOLEAN :
          call = [fn |-> "chunk", pc |-> "section", content |-> text,
                  size |-> size, overlap |-> overlap,
                  max_section_tokens |-> max_section_tokens,
                  encoding |-> encoding, section_aware |-> section_aware,
                  section_text |-> <<>>, split |-> FALSE,
                  start |-> 0, previous_start |-> 0 - 1,
                  splits |-> <<>>, payloads |-> <<>>]

\* The body of the "for section in sections" loop up to "splits": the section
\* is truncated, and it is split when the mode is not section-aware or the
\* truncated text is longer than max_section_tokens.
ChunkSection ==
    /\ call.fn = "chunk"
    /\ call.pc = "section"
    /\ LET section_text ==
               truncate_section(call.encoding, call.max_section_tokens, call.content)
           splits ==
               ~call.section_aware
                  \/ token_length(call.encoding, section_text) > call.max_section_tokens
       IN call' = [call EXCEPT
             !.section_text = section_text,
             !.split = splits,
             !.pc = IF splits THEN "split" ELSE "emit",
             !.splits = IF splits THEN <<>> ELSE <<section_text>>]
    /\ UNCHANGED <<chunks, audit, results, flags, score, tasks, analyzed, launches, attempted>>

\* One pass of the while loop of _split_token_ids or _split_characters.
SplitWindow ==
    /\ call.fn = "chunk"
    /\ call.pc = "split"
    /\ Len(call.splits) < MaxWindows
    /\ LET total == Len(call.section_text)
           end == Min(total, call.start + WindowSize(call.encoding, call.size))
           chunk_text == Slice(call.section_text, call.start, end)
       IN call' = [call EXCEPT
             !.splits = Append(@, chunk_text),
             !.previous_start = call.start,
             !.start = IF end >= total THEN @
                       ELSE Max(0, end - WindowOverlap(call.encoding, call.overlap)),
             !.pc = IF end >= total THEN "emit" ELSE "split"]
    /\ UNCHANGED <<chunks, audit, results, flags, score, tasks, analyzed, launches, attempted>>

\* The loop over the splits: one payload for each split that is not blank.
EmitPayloads ==
    /\ call.fn = "chunk"
    /\ call.pc = "emit"
    /\ call' = [call EXCEPT !.pc = "done", !.payloads = Payloads(call.splits)]
    /\ UNCHANGED <<chunks, audit, results, flags, score, tasks, analyzed, launches, attempted>>

ChunkNext == ChunkSection \/ SplitWindow \/ EmitPayloads

SpecChunk == InitChunk /\ [][ChunkNext]_vars


\* ------------------------------------------------------------ properties
\* A task that is inside the chunk loop of run() or just past it.
InRun(t) == tasks[t].pc \in {"run_chunk", "run_finish"}

\* The chunks of the document that have no committed AuditChunkResult.
ChunksWithoutResult == {c \in chunks : results[c] = 0}

\* The status changes of the state machine.
Legal(a, b) ==
    \/ a = b
    \/ <<a, b>> \in {<<"queued", "running">>, <<"running", "completed">>,
                     <<"running", "failed">>, <<"failed", "running">>}

\* C1: every step changes the committed status of the audit only along
\* queued -> running, running -> completed, running -> failed or
\* failed -> running; in particular a failed audit never becomes queued.
C1_OnlyLegalTransitions == [][Legal(audit.status, audit'.status)]_vars

\* C2: in every committed state reached by runs with any max_chunks, chunk
\* failures, retries and resumes, 0 <= chunk_completed <= chunk_total.
C2_CounterWithinTotal ==
    /\ 0 <= audit.chunk_completed
    /\ audit.chunk_completed <= audit.chunk_total

\* C2, its case: an audit that failed at a chunk, was resumed and run to the
\* end, with chunk_completed at chunk_total and more than one chunk.
C2_Witness ==
    /\ audit.status = "completed"
    /\ audit.failed_at
    /\ audit.chunk_total = MaxChunks
    /\ audit.chunk_completed = audit.chunk_total

\* C3: a completed audit has chunk_completed = chunk_total and no chunk of its
\* document without an AuditChunkResult (the direction "completed implies" of
\* the equivalence the claim states).
C3_CompletedMeansAllDone ==
    audit.status = "completed" =>
        /\ audit.chunk_completed = audit.chunk_total
        /\ ChunksWithoutResult = {}

\* No chunk is analyzed twice; the chunks a run has selected and not yet
\* processed have no AuditChunkResult and are the first of the chunks without
\* one, in chunk order; and a run whose limit does not cut the selection has
\* selected exactly the chunks without a result.
SelectsOnlyPending ==
    /\ \A c \in ChunkIds : analyzed[c] <= 1
    /\ \A t \in Tasks : InRun(t) =>
          LET sel == tasks[t].pending
              done == tasks[t].processed
              rest == SubSeq(sel, done + 1, Len(sel))
              lim == EffectiveLimit(tasks[t].max_chunks, tasks[t].loc.is_draft)
          IN /\ \A i \in 1..Len(sel) : results[sel[i]] = IF i <= done THEN 1 ELSE 0
             /\ rest = Take(Ascending(ChunksWithoutResult), Len(rest))
             /\ (lim = NoLimit \/ lim = 0 \/ lim >= Cardinality(chunks))
                   => rest = Ascending(ChunksWithoutResult)

\* The step in which the processing of task t's current chunk raises.
ChunkRaises(t) ==
    /\ tasks[t].pc = "run_chunk"
    /\ tasks'[t].pc \notin {"run_chunk", "run_finish"}

\* C4: after every step, runs have selected only chunks without an
\* AuditChunkResult, in chunk order, and no chunk was analyzed twice; and a
\* chunk at which run() failed is still without a result, so that the next
\* run starts at it and the later runs cover the chunks k..N-1.
C4_LaterRunsCoverRemaining ==
    [][/\ SelectsOnlyPending'
       /\ \A t \in Tasks : ChunkRaises(t) => Current(t) \in ChunksWithoutResult']_vars

\* C5: in every committed state the chunks with an AuditChunkResult are the
\* chunks with a Flag, each has one result, and chunk_completed is their number.
C5_ResultsMatchFlags ==
    /\ {c \in ChunkIds : results[c] > 0} = flags
    /\ \A c \in ChunkIds : results[c] <= 1
    /\ audit.chunk_completed = Cardinality(flags)

\* C6: when the processing of a chunk raises, the audit is committed as failed
\* with failed_at and a failure reason, and the committed results and flags
\* are what they were: nothing is persisted for the failing chunk.
C6_FailureKeepsCommittedWork ==
    [][\A t \in Tasks : ChunkRaises(t) =>
          /\ audit'.status = "failed"
          /\ audit'.failed_at
          /\ audit'.failure_reason # NoReason
          /\ results' = results
          /\ flags' = flags]_vars

\* C7: whatever tasks run side by side, no chunk is analyzed twice and no
\* chunk has more than one AuditChunkResult.
C7_OneResultPerChunk ==
    \A c \in ChunkIds : analyzed[c] <= 1 /\ results[c] <= 1

\* The step in which the background thread of a resume request ends.
ResumeTaskEnds(t) == tasks[t].kind = "resume" /\ tasks'[t].kind = "idle"

\* C8: the background thread of a resume accepted for a failed audit with
\* pending chunks ends only when no chunk is pending or a chunk has failed:
\* it never ends leaving the audit running, or failed without a chunk failure.
C8_ResumeWorksThroughPending ==
    [][\A t \in Tasks :
          (/\ ResumeTaskEnds(t)
           /\ audit.status = "running"
           /\ audit.failed_at
           /\ ChunksWithoutResult # {}) =>
             \/ audit'.status = "completed"
             \/ /\ audit'.status = "failed"
                /\ audit'.failure_reason.kind \in {"rate_limit", "exception"}]_vars

\* The step in which a background task ends on an exception that reached it.
BackgroundTaskDies(t) ==
    /\ tasks[t].pc \in {"up_process", "rs_thread"}
    /\ tasks'[t].kind = "idle"

\* C9: a background task (upload or resume) that ends on an exception leaves
\* the audit failed.
C9_DeadTaskMarksFailed ==
    [][\A t \in Tasks : BackgroundTaskDies(t) => audit'.status = "failed"]_vars

\* The step in which task t's run() gives up on a rate-limited chunk.
RateLimited(t) ==
    /\ tasks[t].pc = "run_chunk"
    /\ tasks'[t] # tasks[t]
    /\ audit'.failure_reason.kind = "rate_limit"

\* C10: the failure reason of a rate-limited chunk reads "chunk N of M" with
\* N the 1-based position of the failing chunk among the document's chunks,
\* wherever that position is chunk_completed + 1, and M = chunk_total, and
\* the audit is failed.
C10_ReasonNamesFailingChunk ==
    [][\A t \in Tasks :
          (RateLimited(t) /\ Position(Current(t)) = audit.chunk_completed + 1) =>
             /\ audit'.status = "failed"
             /\ audit'.failure_reason.n = Position(Current(t))
             /\ audit'.failure_reason.m = audit'.chunk_total]_vars

\* C11: a run() called with max_chunks = m has selected, and so analyzes, at
\* most m chunks, for every m given; without max_chunks it has selected at
\* most 5 chunks for a draft audit and every pending chunk otherwise.
C11_LimitBoundsOneRun ==
    \A t \in Tasks : InRun(t) =>
        LET m == tasks[t].max_chunks
            sel == tasks[t].pending
            rest == SubSeq(sel, tasks[t].processed + 1, Len(sel))
        IN /\ tasks[t].processed <= Len(sel)
           /\ m # NoLimit => Len(sel) <= m
           /\ (m = NoLimit /\ tasks[t].loc.is_draft) => Len(sel) <= DraftLimit
           /\ (m = NoLimit /\ ~tasks[t].loc.is_draft) => rest = Ascending(ChunksWithoutResult)

EmptyDocumentTaskEnds(t) ==
    /\ tasks[t].kind \in {"upload", "cli"}
    /\ tasks'[t].kind = "idle"
    /\ chunks' = {}
    /\ flags' = {}

\* C12: an audit of a document that yields no chunks, the upload pipeline's
\* included, ends completed with chunk_total = chunk_completed = 0 and a score
\* snapshot of no flags, whose overall_score is 100.
C12_EmptyDocumentCompletes ==
    [][\A t \in Tasks : EmptyDocumentTaskEnds(t) =>
          /\ audit'.status = "completed"
          /\ audit'.chunk_total = 0
          /\ audit'.chunk_completed = 0
          /\ score' = 0
          /\ calculate_compliance_score(<<>>) = 100 * ScoreUnit]_vars

\* The (citation_type, reference) pairs of the rows' citations.
CitationSet(rows) ==
    UNION {{rows[i].citations[k] : k \in 1..Len(rows[i].citations)} : i \in 1..Len(rows)}

\* C13: after upsert_flag(A, C, X) twice and a commit, the database is as it was
\* after the first call: exactly one Flag of (A, C), with the same citations.
C13_SecondUpsertChangesNothing ==
    (call.fn = "upsert" /\ call.ended) =>
        /\ Len(call.session.rows) = 1
        /\ call.session.rows = call.first
        /\ CitationSet(call.session.rows) = CitationSet(call.first)

\* C15: the bundle build_context returns has total_tokens within the global
\* budget, each bucket's tokens within the bucket's budget, and truncated set
\* whenever a candidate was left out by the budget.
C15_BundleWithinBudgets ==
    (call.fn = "context" /\ call.done) =>
        /\ call.bundle.total_tokens <= call.total_token_budget
        /\ \A b \in DOMAIN call.limit : call.bundle.token_breakdown[b] <= call.limit[b]
        /\ call.refused => call.bundle.truncated

\* C16: the committed failure_reason of the audit is never longer than 500
\* characters, whichever handler wrote it.
C16_ReasonAtMost500 == audit.failure_reason.len <= MaxReason

\* C17: within one run the chunks are analyzed one at a time in strictly
\* ascending chunk_index order: when the analysis of a chunk starts, every chunk
\* the run took before it has a lower index and a committed result.
C17_AscendingAfterCommit ==
    \A t \in Tasks : tasks[t].pc = "run_chunk" =>
        \A k \in 1..tasks[t].processed :
            /\ tasks[t].pending[k] < Current(t)
            /\ results[tasks[t].pending[k]] >= 1
            /\ analyzed[tasks[t].pending[k]] >= 1

\* C17, its case: a run is about to analyze its third chunk, and the chunks it
\* took are not adjacent.
C17_Witness ==
    \E t \in Tasks :
        /\ tasks[t].pc = "run_chunk"
        /\ tasks[t].processed = 2
        /\ tasks[t].pending[2] > tasks[t].pending[1] + 1
        /\ results[tasks[t].pending[2]] = 1

\* C18: for every chunk the analysis client is called at most 1 + L times,
\* where L is 0 for a draft and otherwise the configured number of attempts,
\* raised to 5 with the recursive builder; the loop has then ended.
C18_ClientCallsBounded ==
    call.fn = "refine" =>
        LET L == IF call.is_draft THEN 0
                 ELSE IF call.recursive THEN Max(Max(0, call.setting), 5)
                 ELSE Max(0, call.setting)
        IN /\ call.client_calls <= 1 + L
           /\ call.client_calls = 1 + L => ~(call.pc = "loop" /\ LoopContinues(call))

\* C18, its case: the recursive builder with a lower setting, and the client has
\* been called 1 + 5 times.
C18_Witness ==
    /\ call.fn = "refine"
    /\ call.recursive
    /\ call.setting = 1
    /\ call.client_calls = 6
    /\ call.analysis.needs_additional_context
    /\ call.pc = "returned"

\* C19: the returned analysis has refined = true and refinement_attempts = n
\* exactly when at least one retrieval with re-analysis ran, n being the number
\* of re-analyses; a loop ended by an empty context_query adds nothing to it.
C19_RefinedCountsReanalyses ==
    (call.fn = "refine" /\ call.pc = "returned") =>
        /\ call.refined <=> call.reanalyses >= 1
        /\ call.refinement_attempts = call.reanalyses
        /\ call.retrievals = call.reanalyses

\* C20: a commit that shows the audit as completed comes only when every chunk
\* of the document has a committed result and record_score has been called.
C20_CompletedAfterResultsAndScore ==
    [][(audit.status # "completed" /\ audit'.status = "completed") =>
          /\ ChunksWithoutResult' = {}
          /\ attempted']_vars

\* C20, its case: an audit of MaxChunks chunks is completed after a record_score
\* that failed, so the status was committed by run() itself after the attempt.
C20_Witness ==
    /\ audit.status = "completed"
    /\ Cardinality(chunks) = MaxChunks
    /\ \A c \in chunks : results[c] = 1
    /\ attempted
    /\ score = NoScore

\* C21: a lookup receives only a result computed for its own collection, query
\* text and document filter; a refinement's search for context_query never
\* receives the result of the chunk's content or of another query.
C21_CacheServesSameQuery ==
    call.fn = "cache" => call.matches = call.asked

\* C22: after an HTTP 404 analyze() sends no further request.
C22_NoRequestAfter404 ==
    call.fn = "analyze" => call.posts_after_404 = 0

\* C23: analyze() sends at most max_retries requests, sleeps at most
\* max_retries times and never longer than 120 seconds, and when every answer
\* was a 429 it ends by raising the analysis error.
C23_BoundedRequestsAndWaits ==
    call.fn = "analyze" =>
        /\ call.posts <= call.max_retries
        /\ call.sleeps <= call.max_retries
        /\ call.longest_wait <= 120
        /\ call.attempt <= call.max_retries + 1
        /\ (call.only_429 /\ call.pc # "loop") => call.pc = "raised"
        /\ (call.only_429 /\ call.pc = "raised") => call.posts = call.max_retries

\* C23, its case: three answers of 429, one of them with Retry-After: 200, and
\* the analysis error raised.
C23_Witness ==
    /\ call.fn = "analyze"
    /\ call.only_429
    /\ call.posts = 3
    /\ call.sleeps = 2
    /\ call.longest_wait = 120
    /\ call.pc = "raised"

\* C24: the bundle build_recursive_context returns has total_tokens within the
\* total budget, and is marked truncated when the budget dropped a candidate.
C24_RecursiveBundleWithinBudget ==
    (call.fn = "recursive" /\ call.pc = "done") =>
        /\ call.bundle.total_tokens <= call.total_token_budget
        /\ call.base_truncated => call.bundle.truncated

\* C25: none of the four lists of the bundle build_recursive_context returns
\* holds a chunk id twice.
C25_NoChunkTwiceInAList ==
    (call.fn = "recursive" /\ call.pc = "done") =>
        /\ Cardinality(Range(call.bundle.manual_neighbors)) = Len(call.bundle.manual_neighbors)
        /\ Cardinality(Range(call.bundle.regulation_slices)) = Len(call.bundle.regulation_slices)
        /\ Cardinality(Range(call.bundle.guidance_slices)) = Len(call.bundle.guidance_slices)
        /\ Cardinality(Range(call.bundle.evidence_slices)) = Len(call.bundle.evidence_slices)

\* C26: one call of build_recursive_context processes each chunk id at most
\* once and none at depth max_depth or deeper, and the number of queue entries
\* taken and waiting never passes one per chunk id besides the focus entry.
C26_EachChunkOnceBelowMaxDepth ==
    call.fn = "recursive" =>
        /\ \A c \in DOMAIN call.times : call.times[c] <= 1
        /\ call.deepest < call.max_depth
        /\ call.pops + Len(call.chunks_to_process)
              <= 1 + Cardinality(ManualIds \cup EvidenceIds)

\* A call that has returned after a chunk referred back to the focus chunk and
\* an entry was skipped at max_depth.
C26_Witness ==
    /\ call.fn = "recursive"
    /\ call.pc = "done"
    /\ call.max_depth = 2
    /\ call.deepest = 1
    /\ \A c \in ManualIds : call.times[c] = 1
    /\ \A c \in EvidenceIds : call.times[c] = 0
    /\ FocusId \in Range(call.all_manual_chunks)
    /\ call.pops = 3

\* C28: every Flag row in the database has a severity_score of zero or more.
C28_SeverityNotNegative ==
    call.fn = "upsert" =>
        \A i \in 1..Len(call.session.rows) : call.session.rows[i].severity_score >= 0

\* C27: in section-aware mode a section whose content has at most
\* max_section_tokens tokens gives exactly one chunk, and a longer section
\* gives the chunks of the window split: it goes through the split, or one
\* window of the split covers the section text.
C27_LongSectionIsSplit ==
    (call.fn = "chunk" /\ call.pc = "done" /\ call.section_aware) =>
        IF token_length(call.encoding, call.content) <= call.max_section_tokens
        THEN Len(call.payloads) = 1
        ELSE \/ call.split
             \/ WindowSize(call.encoding, call.size) >= Len(call.section_text)

\* C30: every pass of the split loop that goes on to another pass has moved
\* the start of the window strictly forward.
C30_WindowStartMovesForward ==
    (call.fn = "chunk" /\ call.pc = "split" /\ call.splits # <<>>) =>
        call.start > call.previous_start

\* C29: after a manual upload, with no further request, the audit eventually
\* has the status completed or failed.
C29_UploadReachesFinalStatus == <>(audit.status \in {"completed", "failed"})
====
